---- MODULE Spec2Model ----
(***************************************************************************)
(* Model of src/app.py: the CameraManager (connect, connect_ip,            *)
(* _capture_loop, get_frame_base64, disconnect) and the training job       *)
(* (start_training, stop_training, training_worker).                       *)
(*                                                                         *)
(* Flask serves each request on its own thread, so request handlers run    *)
(* concurrently with each other and with the daemon threads they spawn.    *)
(* One step of a thread is one statement of the source; every read of a    *)
(* shared attribute (self.camera, self.frame, training_status[...]) is     *)
(* made at the step that executes the statement reading it.                *)
(***************************************************************************)
EXTENDS Integers, Sequences, FiniteSets, TLC

\* ------------------------------------------------------------------ bounds
\* Number of connect / connect_ip calls a behaviour may start. Each call
\* creates at most one VideoCapture handle and at most one capture thread.
MaxConnects == 2

\* Number of /api/training/start and /api/training/stop requests a behaviour
\* may make, and the largest epoch count a start request asks for.
MaxStarts == 2
MaxStops == 1
MaxEpochs == 2

\* Number of /api/zones/save requests a behaviour may make, and the largest
\* coordinate of a zone point.
MaxSaves == 2
MaxCoord == 1

\* Request-handling threads that may be inside a camera handler at once.
Reqs == {"r1", "r2"}

\* ---------------------------------------------------------------- values
None == "None"
UsbSource == "usb0"
IpSource == "rtsp://cam"

Handles == 1..MaxConnects
Loops == 1..MaxConnects

\* self.lock is free, or held by a request thread or by a capture thread.
Free == <<>>
ReqHolder(r) == <<"req", r>>
LoopHolder(l) == <<"loop", l>>

\* What a handler gave back: nothing yet, a (success, message) pair, the
\* value of get_frame_base64, or an uncaught exception.
NoResult == <<>>
Ret(ok, msg) == <<"ret", ok, msg>>
Value(v) == <<"value", v>>
Raised(what) == <<"raise", what>>

\* base64.b64encode(cv2.imencode('.jpg', frame)): the text of the JPEG of the
\* frame, which is not the frame itself.
Encode(f) == <<"b64", <<"jpg", f>>>>

VARIABLES
    camera,        \* self.camera: None (0) or a handle
    camera_id,     \* self.camera_id
    is_streaming,  \* self.is_streaming
    frame,         \* self.frame: None or the source the frame was read from
    lock,          \* self.lock
    opened,        \* handles opened and neither released nor finalized
    hsrc,          \* the source each created handle was constructed on
    nHandles,      \* handles constructed so far
    pc,            \* where each request thread is
    arg,           \* the source a thread's connect call was given
    rres,          \* what each request thread's last handler returned
    lpc,           \* where each capture thread is
    lframe,        \* the frame a capture thread read and has not stored
    nLoops,        \* capture threads started so far
    nConnects,     \* connect calls started so far
    discDone,      \* a disconnect has returned, and no connect has run since
                   \* it began
    gAfter,        \* the thread's get_frame_base64 call began while discDone
    dCam,          \* self.camera when the thread's disconnect call began
    dOverlap,      \* a connect ran while the thread's disconnect call, or
                   \* a disconnect call in progress beside it, did
    dRel,          \* the thread's disconnect call has released a handle
    signalled      \* capture threads that were alive when a disconnect call
                   \* began (is_streaming was set False under them)

camVars == <<camera, camera_id, is_streaming, frame, lock, opened, hsrc,
             nHandles, pc, arg, rres, lpc, lframe, nLoops, nConnects,
             discDone, gAfter, dCam, dOverlap, dRel, signalled>>

VARIABLES
    training_status, \* the global dict
    tpc,             \* where each request thread is in a training handler
    targ,            \* the epochs a thread's start request asked for
    tres,            \* what the thread's handler answers
    wpc,             \* where each training_worker thread is
    wepochs,         \* the worker's argument epochs
    wepoch,          \* the worker's loop variable epoch
    nWorkers,        \* workers started so far
    nStarts,         \* start requests made so far
    nStops,          \* stop requests made so far
    advances,        \* epoch advances since training_status was last reset
    tRunning,        \* is_training when the thread's stop request began
    stopSnap         \* (epoch, progress) when the last stop of a running job
                     \* returned; none once a start has reset the status

trainVars == <<training_status, tpc, targ, tres, wpc, wepochs, wepoch,
               nWorkers, nStarts, nStops, advances, tRunning, stopSnap>>

VARIABLES
    zone_config,     \* the global dict zone_config
    zfile,           \* zones_config.json: absent, or its text
    zpc,             \* where each request thread is in a zone handler
    zres,            \* what the thread's zone handler answers
    nSaves,          \* save requests made so far
    zOverlap,        \* another save ran while the thread's save request did
    zLast,           \* the zones of the last save request that has returned,
                     \* if no save has begun since and none ran beside it
    zExpect          \* zLast when the thread's load request began, if no
                     \* save has begun since

zoneVars == <<zone_config, zfile, zpc, zres, nSaves, zOverlap, zLast,
              zExpect>>

VARIABLES
    session          \* the Flask session of the browser making the requests

notCamVars == <<trainVars, zoneVars, session>>
notTrainVars == <<camVars, zoneVars, session>>
notZoneVars == <<camVars, trainVars, session>>

NoHandle == 0

CamInit ==
    /\ camera = NoHandle
    /\ camera_id = None
    /\ is_streaming = FALSE
    /\ frame = None
    /\ lock = Free
    /\ opened = {}
    /\ hsrc = [h \in Handles |-> None]
    /\ nHandles = 0
    /\ pc = [r \in Reqs |-> "idle"]
    /\ arg = [r \in Reqs |-> None]
    /\ rres = [r \in Reqs |-> NoResult]
    /\ lpc = [l \in Loops |-> "unborn"]
    /\ lframe = [l \in Loops |-> None]
    /\ nLoops = 0
    /\ nConnects = 0
    /\ discDone = FALSE
    /\ gAfter = [r \in Reqs |-> FALSE]
    /\ dCam = [r \in Reqs |-> NoHandle]
    /\ dOverlap = [r \in Reqs |-> FALSE]
    /\ dRel = [r \in Reqs |-> FALSE]
    /\ signalled = {}

\* ---------------------------------------------------------------- helpers
ConnectPcs == {"C_check", "C_release", "C_open", "C_isOpened", "C_read",
               "C_setid", "C_setstream", "C_spawn"}
DisconnectPcs == {"D_check", "D_release", "D_clear", "D_id",
                  "D_frame"}

AlivePcs == {"L_while", "L_read", "L_lock", "L_store"}
AliveLoops == {l \in Loops : lpc[l] \in AlivePcs}

InConnect(r) == pc[r] \in ConnectPcs
InDisconnect(r) == pc[r] \in DisconnectPcs

\* The CameraManager method returns (or raises) to its route handler, which
\* holds the result until it has answered the request.
Return(r, result) ==
    /\ pc' = [pc EXCEPT ![r] = "respond"]
    /\ rres' = [rres EXCEPT ![r] = result]

Goto(r, where) ==
    /\ pc' = [pc EXCEPT ![r] = where]
    /\ UNCHANGED rres

\* The messages of connect and of connect_ip.
MsgCannotOpen(s) == IF s = UsbSource THEN "Cannot open camera"
                    ELSE "Cannot connect to IP camera"
MsgCannotRead(s) == IF s = UsbSource THEN "Cannot read from camera"
                    ELSE "Cannot read from IP camera"
MsgConnected(s) == IF s = UsbSource THEN "Camera connected"
                   ELSE "IP Camera connected"

histVars == <<discDone, gAfter, dCam, dOverlap, dRel, signalled>>
loopVars == <<lpc, lframe, nLoops>>
handleVars == <<opened, hsrc, nHandles>>

\* self.camera is the only reference to a handle (every use reads
\* self.camera again), so once self.camera is overwritten nothing can read
\* from the old handle and the source it was constructed on is dropped.
Forget(h) == IF h = NoHandle THEN hsrc ELSE [hsrc EXCEPT ![h] = None]

\* ------------------------------------------------- connect and connect_ip
\* A connect call begins (the route handler calls camera_mgr.connect or
\* camera_mgr.connect_ip with the source s).
BeginConnect(r, s) ==
    /\ pc[r] = "idle"
    /\ nConnects < MaxConnects
    /\ nConnects' = nConnects + 1
    /\ arg' = [arg EXCEPT ![r] = s]
    /\ pc' = [pc EXCEPT ![r] = "C_check"]
    /\ UNCHANGED rres
    /\ discDone' = FALSE
    /\ gAfter' = [q \in Reqs |-> FALSE]
    /\ dOverlap' = [q \in Reqs |-> IF InDisconnect(q) THEN TRUE ELSE dOverlap[q]]
    /\ UNCHANGED <<camera, camera_id, is_streaming, frame, lock, handleVars,
                   loopVars, dCam, dRel, signalled>>
    /\ UNCHANGED notCamVars

\* CameraManager.connect(camera_id)
Connect(r) == BeginConnect(r, UsbSource)

\* CameraManager.connect_ip(url)
ConnectIp(r) == BeginConnect(r, IpSource)

\* if self.camera is not None:
ConnectCheck(r) ==
    /\ pc[r] = "C_check"
    /\ Goto(r, IF camera # NoHandle THEN "C_release" ELSE "C_open")
    /\ UNCHANGED <<camera, camera_id, is_streaming, frame, lock, handleVars,
                   arg, loopVars, nConnects, histVars>>
    /\ UNCHANGED notCamVars

\* self.camera.release(); a None found here raises AttributeError, which the
\* except clause turns into (False, str(e)).
ConnectRelease(r) ==
    /\ pc[r] = "C_release"
    /\ IF camera = NoHandle
       THEN /\ Return(r, Ret(FALSE, "AttributeError"))
            /\ UNCHANGED opened
       ELSE /\ opened' = opened \ {camera}
            /\ Goto(r, "C_open")
    /\ UNCHANGED <<camera, camera_id, is_streaming, frame, lock, hsrc,
                   nHandles, arg, loopVars, nConnects, histVars>>
    /\ UNCHANGED notCamVars

\* self.camera = cv2.VideoCapture(src): a new handle, which the device may
\* or may not let open, is constructed and then becomes the current one.
\* The handle it replaces loses its only reference by the assignment, after
\* the new one was constructed; whether the interpreter finalizes it (which
\* closes it) there or later is the interpreter's choice.
ConnectOpen(r) ==
    /\ pc[r] = "C_open"
    /\ nHandles' = nHandles + 1
    /\ hsrc' = [Forget(camera) EXCEPT ![nHandles + 1] = arg[r]]
    /\ \E ok \in BOOLEAN, finalized \in BOOLEAN :
          opened' = (IF finalized THEN opened \ {camera} ELSE opened)
                        \cup (IF ok THEN {nHandles + 1} ELSE {})
    /\ camera' = nHandles + 1
    /\ Goto(r, "C_isOpened")
    /\ UNCHANGED <<camera_id, is_streaming, frame, lock, arg, loopVars,
                   nConnects, histVars>>
    /\ UNCHANGED notCamVars

\* if not self.camera.isOpened(): return False, "Cannot open camera"
ConnectIsOpened(r) ==
    /\ pc[r] = "C_isOpened"
    /\ IF camera = NoHandle
       THEN Return(r, Ret(FALSE, "AttributeError"))
       ELSE IF camera \notin opened
            THEN Return(r, Ret(FALSE, MsgCannotOpen(arg[r])))
            ELSE Goto(r, "C_read")
    /\ UNCHANGED <<camera, camera_id, is_streaming, frame, lock, handleVars,
                   arg, loopVars, nConnects, histVars>>
    /\ UNCHANGED notCamVars

\* ret, frame = self.camera.read(); if not ret: return False, "Cannot read"
\* A read of an open handle may fail; a read of a released one does.
ConnectTestRead(r) ==
    /\ pc[r] = "C_read"
    /\ IF camera = NoHandle
       THEN Return(r, Ret(FALSE, "AttributeError"))
       ELSE \E ret \in (IF camera \in opened THEN BOOLEAN ELSE {FALSE}) :
               IF ret THEN Goto(r, "C_setid")
               ELSE Return(r, Ret(FALSE, MsgCannotRead(arg[r])))
    /\ UNCHANGED <<camera, camera_id, is_streaming, frame, lock, handleVars,
                   arg, loopVars, nConnects, histVars>>
    /\ UNCHANGED notCamVars

\* self.camera_id = camera_id
ConnectSetId(r) ==
    /\ pc[r] = "C_setid"
    /\ camera_id' = arg[r]
    /\ Goto(r, "C_setstream")
    /\ UNCHANGED <<camera, is_streaming, frame, lock, handleVars, arg,
                   loopVars, nConnects, histVars>>
    /\ UNCHANGED notCamVars

\* self.is_streaming = True
ConnectSetStreaming(r) ==
    /\ pc[r] = "C_setstream"
    /\ is_streaming' = TRUE
    /\ Goto(r, "C_spawn")
    /\ UNCHANGED <<camera, camera_id, frame, lock, handleVars, arg, loopVars,
                   nConnects, histVars>>
    /\ UNCHANGED notCamVars

\* threading.Thread(target=self._capture_loop, daemon=True).start()
\* return True, "Camera connected"
ConnectSpawn(r) ==
    /\ pc[r] = "C_spawn"
    /\ nLoops' = nLoops + 1
    /\ lpc' = [lpc EXCEPT ![nLoops + 1] = "L_while"]
    /\ Return(r, Ret(TRUE, MsgConnected(arg[r])))
    /\ UNCHANGED <<camera, camera_id, is_streaming, frame, lock, handleVars,
                   arg, lframe, nConnects, histVars>>
    /\ UNCHANGED notCamVars

\* ------------------------------------------------------------ disconnect
Disconnected ==
    /\ ~is_streaming
    /\ camera = NoHandle
    /\ camera_id = None
    /\ frame = None

\* The disconnect call begins with self.is_streaming = False.
DisconnectBegin(r) ==
    /\ pc[r] = "idle"
    /\ is_streaming' = FALSE
    /\ pc' = [pc EXCEPT ![r] = "D_check"]
    /\ UNCHANGED rres
    /\ dCam' = [dCam EXCEPT ![r] = camera]
    /\ dOverlap' = [dOverlap EXCEPT ![r] =
                        \E q \in Reqs : InConnect(q) \/ dOverlap[q]]
    /\ dRel' = [dRel EXCEPT ![r] = FALSE]
    /\ signalled' = signalled \cup AliveLoops
    /\ UNCHANGED <<camera, camera_id, frame, lock, handleVars, arg, loopVars,
                   nConnects, discDone, gAfter>>
    /\ UNCHANGED notCamVars

\* if self.camera is not None:
DisconnectCheck(r) ==
    /\ pc[r] = "D_check"
    /\ Goto(r, IF camera # NoHandle THEN "D_release" ELSE "D_id")
    /\ UNCHANGED <<camera, camera_id, is_streaming, frame, lock, handleVars,
                   arg, loopVars, nConnects, histVars>>
    /\ UNCHANGED notCamVars

\* self.camera.release(): nothing catches the AttributeError of a None here.
DisconnectRelease(r) ==
    /\ pc[r] = "D_release"
    /\ IF camera = NoHandle
       THEN /\ Return(r, Raised("AttributeError"))
            /\ UNCHANGED <<opened, dRel>>
       ELSE /\ opened' = opened \ {camera}
            /\ dRel' = [dRel EXCEPT ![r] = TRUE]
            /\ Goto(r, "D_clear")
    /\ UNCHANGED <<camera, camera_id, is_streaming, frame, lock, hsrc,
                   nHandles, arg, loopVars, nConnects, discDone, gAfter,
                   dCam, dOverlap, signalled>>
    /\ UNCHANGED notCamVars

\* disconnect without its line 108: the released handle stays in self.camera.
DisconnectClear_Skipped(r) ==
    /\ pc[r] = "D_clear"
    /\ Goto(r, "D_id")
    /\ UNCHANGED <<camera, camera_id, is_streaming, frame, lock, handleVars,
                   arg, loopVars, nConnects, histVars>>
    /\ UNCHANGED notCamVars

\* self.camera = None
DisconnectClear(r) ==
    /\ pc[r] = "D_clear"
    /\ camera' = NoHandle
    /\ hsrc' = Forget(camera)
    /\ Goto(r, "D_id")
    /\ UNCHANGED <<camera_id, is_streaming, frame, lock, opened, nHandles,
                   arg, loopVars, nConnects, histVars>>
    /\ UNCHANGED notCamVars

\* self.camera_id = None
DisconnectId(r) ==
    /\ pc[r] = "D_id"
    /\ camera_id' = None
    /\ Goto(r, "D_frame")
    /\ UNCHANGED <<camera, is_streaming, frame, lock, handleVars, arg,
                   loopVars, nConnects, histVars>>
    /\ UNCHANGED notCamVars

\* self.frame = None, and the call returns.
DisconnectFrame(r) ==
    /\ pc[r] = "D_frame"
    /\ frame' = None
    /\ Return(r, Ret(TRUE, "Camera disconnected"))
    /\ discDone' = ~dOverlap[r]
    /\ UNCHANGED <<camera, camera_id, is_streaming, lock, handleVars, arg,
                   loopVars, nConnects, gAfter, dCam, dOverlap, dRel,
                   signalled>>
    /\ UNCHANGED notCamVars

\* ------------------------------------------------------ get_frame_base64
\* frame = camera_mgr.get_frame_base64(): the handler of /api/camera/frame
\* calls the method, which comes to its with statement.
GetFrameCall(r) ==
    /\ pc[r] = "idle"
    /\ pc' = [pc EXCEPT ![r] = "G_lock"]
    /\ UNCHANGED rres
    /\ gAfter' = [gAfter EXCEPT ![r] = discDone]
    /\ UNCHANGED <<camera, camera_id, is_streaming, frame, lock, handleVars,
                   arg, loopVars, nConnects, discDone, dCam, dOverlap, dRel,
                   signalled>>
    /\ UNCHANGED notCamVars

\* with self.lock: the thread waits until the lock is free and takes it.
GetFrameAcquire(r) ==
    /\ pc[r] = "G_lock"
    /\ lock = Free
    /\ lock' = ReqHolder(r)
    /\ Goto(r, "G_check")
    /\ UNCHANGED <<camera, camera_id, is_streaming, frame, handleVars, arg,
                   loopVars, nConnects, histVars>>
    /\ UNCHANGED notCamVars

\* if self.frame is None: return None
GetFrameCheck(r) ==
    /\ pc[r] = "G_check"
    /\ IF frame = None
       THEN /\ lock' = Free
            /\ Return(r, Value(None))
       ELSE /\ Goto(r, "G_encode")
            /\ UNCHANGED lock
    /\ UNCHANGED <<camera, camera_id, is_streaming, frame, handleVars, arg,
                   loopVars, nConnects, histVars>>
    /\ UNCHANGED notCamVars

\* ret, jpeg = cv2.imencode('.jpg', self.frame): self.frame is read again;
\* imencode raises on None and may report failure, after which the function
\* falls through to return None. Leaving the with block frees the lock.
GetFrameEncode(r) ==
    /\ pc[r] = "G_encode"
    /\ lock' = Free
    /\ IF frame = None
       THEN Return(r, Raised("cv2.error"))
       ELSE \E ret \in BOOLEAN :
               Return(r, Value(IF ret THEN Encode(frame) ELSE None))
    /\ UNCHANGED <<camera, camera_id, is_streaming, frame, handleVars, arg,
                   loopVars, nConnects, histVars>>
    /\ UNCHANGED notCamVars

\* ---------------------------------------------------------- camera_status
\* The document of /api/camera/status, and the part of it built so far.
StatusDoc(connected, id) == <<"status", connected, id>>
StatusPart(connected) == <<"status-part", connected>>

\* 'connected': camera_mgr.camera is not None
CameraStatusConnected(r) ==
    /\ pc[r] = "idle"
    /\ pc' = [pc EXCEPT ![r] = "Q_id"]
    /\ rres' = [rres EXCEPT ![r] = StatusPart(camera # NoHandle)]
    /\ UNCHANGED <<camera, camera_id, is_streaming, frame, lock, handleVars,
                   arg, loopVars, nConnects, histVars>>
    /\ UNCHANGED notCamVars

\* 'camera_id': camera_mgr.camera_id, and the document is returned.
CameraStatusId(r) ==
    /\ pc[r] = "Q_id"
    /\ Return(r, StatusDoc(rres[r][2], camera_id))
    /\ UNCHANGED <<camera, camera_id, is_streaming, frame, lock, handleVars,
                   arg, loopVars, nConnects, histVars>>
    /\ UNCHANGED notCamVars

\* --------------------------------------------------------- _capture_loop
LoopGoto(l, where) == lpc' = [lpc EXCEPT ![l] = where]

\* time.sleep(0.033) of the iteration before, if any, is over; then
\* while self.is_streaming and self.camera is not None:
LoopWhile(l) ==
    /\ lpc[l] = "L_while"
    /\ LoopGoto(l, IF is_streaming /\ camera # NoHandle THEN "L_read"
                   ELSE "exited")
    /\ UNCHANGED <<camera, camera_id, is_streaming, frame, lock, handleVars,
                   pc, arg, rres, lframe, nLoops, nConnects, histVars>>
    /\ UNCHANGED notCamVars

\* ret, frame = self.camera.read(): self.camera is read again, and a None
\* found here raises AttributeError, which ends the thread. if ret: ...
LoopRead(l) ==
    /\ lpc[l] = "L_read"
    /\ IF camera = NoHandle
       THEN /\ LoopGoto(l, "crashed")
            /\ UNCHANGED lframe
       ELSE \E ret \in (IF camera \in opened THEN BOOLEAN ELSE {FALSE}) :
               IF ret
               THEN /\ lframe' = [lframe EXCEPT ![l] = hsrc[camera]]
                    /\ LoopGoto(l, "L_lock")
               ELSE /\ LoopGoto(l, "L_while")
                    /\ UNCHANGED lframe
    /\ UNCHANGED <<camera, camera_id, is_streaming, frame, lock, handleVars,
                   pc, arg, rres, nLoops, nConnects, histVars>>
    /\ UNCHANGED notCamVars

\* with self.lock:
LoopLock(l) ==
    /\ lpc[l] = "L_lock"
    /\ lock = Free
    /\ lock' = LoopHolder(l)
    /\ LoopGoto(l, "L_store")
    /\ UNCHANGED <<camera, camera_id, is_streaming, frame, handleVars, pc,
                   arg, rres, lframe, nLoops, nConnects, histVars>>
    /\ UNCHANGED notCamVars

\* _capture_loop with the sleep moved inside the with block: the lock is
\* still held when the thread goes to sleep.
LoopStore_HoldsLock(l) ==
    /\ lpc[l] = "L_store"
    /\ frame' = lframe[l]
    /\ lframe' = [lframe EXCEPT ![l] = None]
    /\ LoopGoto(l, "L_while")
    /\ UNCHANGED <<camera, camera_id, is_streaming, lock, handleVars, pc, arg,
                   rres, nLoops, nConnects, histVars>>
    /\ UNCHANGED notCamVars

\* self.frame = frame, and the with block is left; the thread sleeps.
LoopStore(l) ==
    /\ lpc[l] = "L_store"
    /\ frame' = lframe[l]
    /\ lframe' = [lframe EXCEPT ![l] = None]
    /\ lock' = Free
    /\ LoopGoto(l, "L_while")
    /\ UNCHANGED <<camera, camera_id, is_streaming, handleVars, pc, arg,
                   rres, nLoops, nConnects, histVars>>
    /\ UNCHANGED notCamVars

\* ---------------------------------------------------------- route handlers
\* return jsonify(...): camera_connect, camera_disconnect and camera_frame
\* answer the request (Flask answers 500 for an exception) and the thread is
\* free again.
Respond(r) ==
    /\ pc[r] = "respond"
    /\ pc' = [pc EXCEPT ![r] = "idle"]
    /\ rres' = [rres EXCEPT ![r] = NoResult]
    /\ arg' = [arg EXCEPT ![r] = None]
    /\ gAfter' = [gAfter EXCEPT ![r] = FALSE]
    /\ dCam' = [dCam EXCEPT ![r] = NoHandle]
    /\ dOverlap' = [dOverlap EXCEPT ![r] = FALSE]
    /\ dRel' = [dRel EXCEPT ![r] = FALSE]
    /\ UNCHANGED <<camera, camera_id, is_streaming, frame, lock, handleVars,
                   loopVars, nConnects, discDone, signalled>>
    /\ UNCHANGED notCamVars

\* ------------------------------------------------------- the camera system
RequestStep(r) ==
    \/ Connect(r)
    \/ ConnectIp(r)
    \/ ConnectCheck(r)
    \/ ConnectRelease(r)
    \/ ConnectOpen(r)
    \/ ConnectIsOpened(r)
    \/ ConnectTestRead(r)
    \/ ConnectSetId(r)
    \/ ConnectSetStreaming(r)
    \/ ConnectSpawn(r)
    \/ DisconnectBegin(r)
    \/ DisconnectCheck(r)
    \/ DisconnectRelease(r)
    \/ DisconnectClear(r)
    \/ DisconnectId(r)
    \/ DisconnectFrame(r)
    \/ GetFrameCall(r)
    \/ GetFrameAcquire(r)
    \/ GetFrameCheck(r)
    \/ GetFrameEncode(r)
    \/ Respond(r)

LoopStep(l) ==
    \/ LoopWhile(l)
    \/ LoopRead(l)
    \/ LoopLock(l)
    \/ LoopStore(l)

\* The camera: request handlers and capture threads.
Next ==
    \/ \E r \in Reqs : RequestStep(r)
    \/ \E l \in Loops : LoopStep(l)

\* ============================================================== training
\* training_status['message']
MsgNotStarted == <<"Not started">>
MsgStarting == <<"Starting training...">>
MsgStopped == <<"Training stopped by user">>
MsgCompleted == <<"Training completed!">>
\* f'Epoch {epoch+1}/{epochs} - Loss: {training_status["loss"]:.4f}'
MsgEpoch(e, n, l) == <<"Epoch", e, n, l>>

\* int(data.get('epochs', 10)), for the requests that ask for one epoch or
\* more.
EpochInputs == 1..MaxEpochs

\* np.random.random() * 0.1 and np.random.random() * 2, in hundredths: the
\* two ends of each range stand for the draw.
LossNoise == {0, 9}
AccuracyNoise == {0, 199}

\* 2.5 - (epoch * 0.2) + noise and 50 + (epoch * 4) + noise, in hundredths.
LossOf(e, noise) == 250 - (e * 20) + noise
AccuracyOf(e, noise) == 5000 + (e * 400) + noise

\* int((epoch + 1) / epochs * 100): the quotient, truncated.
ProgressOf(e, n) == ((e + 1) * 100) \div n

Workers == 1..MaxStarts

NoSnap == <<>>

\* training_status as the module defines it (lines 121-129).
InitialStatus ==
    [is_training |-> FALSE, progress |-> 0, epoch |-> 0, total_epochs |-> 0,
     loss |-> 0, accuracy |-> 0, message |-> MsgNotStarted]

\* The dict start_training builds (lines 270-278).
ResetStatus(epochs) ==
    [is_training |-> TRUE, progress |-> 0, epoch |-> 0,
     total_epochs |-> epochs, loss |-> 0, accuracy |-> 0,
     message |-> MsgStarting]

TrainInit ==
    /\ training_status = InitialStatus
    /\ tpc = [r \in Reqs |-> "idle"]
    /\ targ = [r \in Reqs |-> 0]
    /\ tres = [r \in Reqs |-> NoResult]
    /\ wpc = [w \in Workers |-> "unborn"]
    /\ wepochs = [w \in Workers |-> 0]
    /\ wepoch = [w \in Workers |-> 0]
    /\ nWorkers = 0
    /\ nStarts = 0
    /\ nStops = 0
    /\ advances = 0
    /\ tRunning = [r \in Reqs |-> FALSE]
    /\ stopSnap = NoSnap

WorkerAlivePcs == {"W_for", "W_sleep", "W_progress", "W_metrics", "W_if",
                   "W_completed", "W_finally"}
AliveWorkers == {w \in Workers : wpc[w] \in WorkerAlivePcs}

workerVars == <<wpc, wepochs, wepoch, nWorkers>>

TGoto(r, where) ==
    /\ tpc' = [tpc EXCEPT ![r] = where]
    /\ UNCHANGED tres

\* return jsonify({'success': ..., 'message': ...})
TReturn(r, result) ==
    /\ tpc' = [tpc EXCEPT ![r] = "respond"]
    /\ tres' = [tres EXCEPT ![r] = result]

\* -------------------------------------------------------- start_training
\* if training_status['is_training']: return jsonify({'success': False, ...})
\* and otherwise epochs = int(data.get('epochs', 10))
StartCheck(r, epochs) ==
    /\ tpc[r] = "idle"
    /\ nStarts < MaxStarts
    /\ nStarts' = nStarts + 1
    /\ IF training_status.is_training
       THEN /\ TReturn(r, Ret(FALSE, "Training already in progress"))
            /\ UNCHANGED targ
       ELSE /\ TGoto(r, "S_reset")
            /\ targ' = [targ EXCEPT ![r] = epochs]
    /\ UNCHANGED <<training_status, workerVars, nStops, advances, tRunning,
                   stopSnap>>
    /\ UNCHANGED notTrainVars

\* training_status = {...}: the global is bound to a new dict.
StartReset(r) ==
    /\ tpc[r] = "S_reset"
    /\ training_status' = ResetStatus(targ[r])
    /\ advances' = 0
    /\ stopSnap' = NoSnap
    /\ TGoto(r, "S_spawn")
    /\ UNCHANGED <<targ, workerVars, nStarts, nStops, tRunning>>
    /\ UNCHANGED notTrainVars

\* threading.Thread(target=training_worker, args=(training_type, epochs),
\* daemon=True).start(); return jsonify({'success': True, ...})
StartSpawn(r) ==
    /\ tpc[r] = "S_spawn"
    /\ nWorkers' = nWorkers + 1
    /\ wpc' = [wpc EXCEPT ![nWorkers + 1] = "W_for"]
    /\ wepochs' = [wepochs EXCEPT ![nWorkers + 1] = targ[r]]
    /\ wepoch' = [wepoch EXCEPT ![nWorkers + 1] = 0]
    /\ TReturn(r, Ret(TRUE, "Training started"))
    /\ UNCHANGED <<training_status, targ, nStarts, nStops, advances,
                   tRunning, stopSnap>>
    /\ UNCHANGED notTrainVars

\* --------------------------------------------------------- stop_training
\* training_status['is_training'] = False
StopFlag(r) ==
    /\ tpc[r] = "idle"
    /\ nStops < MaxStops
    /\ nStops' = nStops + 1
    /\ tRunning' = [tRunning EXCEPT ![r] = training_status.is_training]
    /\ training_status' = [training_status EXCEPT !.is_training = FALSE]
    /\ TGoto(r, "T_message")
    /\ UNCHANGED <<targ, workerVars, nStarts, advances, stopSnap>>
    /\ UNCHANGED notTrainVars

\* training_status['message'] = 'Training stopped by user'; return jsonify(...)
StopMessage(r) ==
    /\ tpc[r] = "T_message"
    /\ training_status' = [training_status EXCEPT !.message = MsgStopped]
    /\ stopSnap' = IF tRunning[r]
                   THEN <<training_status.epoch, training_status.progress>>
                   ELSE stopSnap
    /\ TReturn(r, Ret(TRUE, "Training stopped"))
    /\ UNCHANGED <<targ, workerVars, nStarts, nStops, advances, tRunning>>
    /\ UNCHANGED notTrainVars

\* The request is answered and the thread is free again.
TrainRespond(r) ==
    /\ tpc[r] = "respond"
    /\ tpc' = [tpc EXCEPT ![r] = "idle"]
    /\ tres' = [tres EXCEPT ![r] = NoResult]
    /\ targ' = [targ EXCEPT ![r] = 0]
    /\ tRunning' = [tRunning EXCEPT ![r] = FALSE]
    /\ UNCHANGED <<training_status, workerVars, nStarts, nStops, advances,
                   stopSnap>>
    /\ UNCHANGED notTrainVars

\* ------------------------------------------------------- training_worker
WGoto(w, where) == wpc' = [wpc EXCEPT ![w] = where]

reqVars == <<tpc, targ, tres, nStarts, nStops, tRunning>>

\* for epoch in range(epochs): if not training_status['is_training']: break
WorkerFor(w) ==
    /\ wpc[w] = "W_for"
    /\ WGoto(w, IF wepoch[w] < wepochs[w] /\ training_status.is_training
                THEN "W_sleep" ELSE "W_if")
    /\ UNCHANGED <<training_status, wepochs, wepoch, nWorkers, reqVars,
                   advances, stopSnap>>
    /\ UNCHANGED notTrainVars

\* time.sleep(2); training_status['epoch'] = epoch + 1
WorkerEpoch(w) ==
    /\ wpc[w] = "W_sleep"
    /\ training_status' = [training_status EXCEPT !.epoch = wepoch[w] + 1]
    /\ advances' = advances + 1
    /\ WGoto(w, "W_progress")
    /\ UNCHANGED <<wepochs, wepoch, nWorkers, reqVars, stopSnap>>
    /\ UNCHANGED notTrainVars

\* training_status['progress'] = int((epoch + 1) / epochs * 100)
WorkerProgress(w) ==
    /\ wpc[w] = "W_progress"
    /\ training_status' = [training_status EXCEPT
                              !.progress = ProgressOf(wepoch[w], wepochs[w])]
    /\ WGoto(w, "W_metrics")
    /\ UNCHANGED <<wepochs, wepoch, nWorkers, reqVars, advances, stopSnap>>
    /\ UNCHANGED notTrainVars

\* training_status['loss'] = 2.5 - (epoch * 0.2) + np.random.random() * 0.1
\* training_status['accuracy'] = 50 + (epoch * 4) + np.random.random() * 2
\* training_status['message'] = f'Epoch {epoch+1}/{epochs} - Loss: ...'
\* The three figures of the epoch are written and the iteration ends.
WorkerMetrics(w) ==
    /\ wpc[w] = "W_metrics"
    /\ \E ln \in LossNoise, an \in AccuracyNoise :
          training_status' = [training_status EXCEPT
              !.loss = LossOf(wepoch[w], ln),
              !.accuracy = AccuracyOf(wepoch[w], an),
              !.message = MsgEpoch(wepoch[w] + 1, wepochs[w],
                                   LossOf(wepoch[w], ln))]
    /\ wepoch' = [wepoch EXCEPT ![w] = @ + 1]
    /\ WGoto(w, "W_for")
    /\ UNCHANGED <<wepochs, nWorkers, reqVars, advances, stopSnap>>
    /\ UNCHANGED notTrainVars

\* if training_status['is_training']:
WorkerIf(w) ==
    /\ wpc[w] = "W_if"
    /\ WGoto(w, IF training_status.is_training THEN "W_completed"
                ELSE "W_finally")
    /\ UNCHANGED <<training_status, wepochs, wepoch, nWorkers, reqVars,
                   advances, stopSnap>>
    /\ UNCHANGED notTrainVars

\* training_status['message'] = 'Training completed!'
WorkerCompleted(w) ==
    /\ wpc[w] = "W_completed"
    /\ training_status' = [training_status EXCEPT !.message = MsgCompleted]
    /\ WGoto(w, "W_finally")
    /\ UNCHANGED <<wepochs, wepoch, nWorkers, reqVars, advances, stopSnap>>
    /\ UNCHANGED notTrainVars

\* finally: training_status['is_training'] = False, and the thread ends.
WorkerFinally(w) ==
    /\ wpc[w] = "W_finally"
    /\ training_status' = [training_status EXCEPT !.is_training = FALSE]
    /\ WGoto(w, "ended")
    /\ UNCHANGED <<wepochs, wepoch, nWorkers, reqVars, advances, stopSnap>>
    /\ UNCHANGED notTrainVars

TrainRequestStep(r) ==
    \/ \E epochs \in EpochInputs : StartCheck(r, epochs)
    \/ StartReset(r)
    \/ StartSpawn(r)
    \/ StopFlag(r)
    \/ StopMessage(r)
    \/ TrainRespond(r)

WorkerStep(w) ==
    \/ WorkerFor(w)
    \/ WorkerEpoch(w)
    \/ WorkerProgress(w)
    \/ WorkerMetrics(w)
    \/ WorkerIf(w)
    \/ WorkerCompleted(w)
    \/ WorkerFinally(w)

\* The training job: request handlers and training workers.
NextTrain ==
    \/ \E r \in Reqs : TrainRequestStep(r)
    \/ \E w \in Workers : WorkerStep(w)

\* ================================================================= zones
\* JSON values: numbers, lists and null.
JNum(n) == <<"num", n>>
JList(items) == <<"list", items>>
JNull == <<"null">>

\* The decimal text of a coordinate, and the number a text stands for.
Digits == <<"0", "1", "2", "3", "4", "5", "6", "7", "8", "9">>
NumText(n) == Digits[n + 1]
TextNum(t) == CHOOSE n \in 0..9 : Digits[n + 1] = t
IsNumText(t) == \E n \in 0..9 : Digits[n + 1] = t

\* json.dump: the text of a value, as a sequence of tokens.
RECURSIVE DumpValue(_)
RECURSIVE DumpItems(_)
DumpValue(v) ==
    IF v[1] = "num" THEN <<NumText(v[2])>>
    ELSE IF v[1] = "null" THEN <<"null">>
    ELSE <<"[">> \o DumpItems(v[2]) \o <<"]">>

DumpItems(items) ==
    IF items = <<>> THEN <<>>
    ELSE IF Len(items) = 1 THEN DumpValue(items[1])
    ELSE DumpValue(items[1]) \o <<",">> \o DumpItems(Tail(items))

\* json.dump(zone_config, f): the keys in the order the dict holds them.
DumpDoc(cfg) ==
    <<"{", "\"zones\"", ":">> \o DumpValue(cfg.zones)
        \o <<",", "\"image\"", ":">> \o DumpValue(cfg.image) \o <<"}">>

\* json.load: the value a text stands for and what follows it, or failure
\* (json.JSONDecodeError).
ParseFailed == [ok |-> FALSE, val |-> JNull, rest |-> <<>>]
Parsed(v, rest) == [ok |-> TRUE, val |-> v, rest |-> rest]

RECURSIVE ParseValue(_)
RECURSIVE ParseItems(_, _)
ParseValue(t) ==
    IF t = <<>> THEN ParseFailed
    ELSE IF IsNumText(Head(t)) THEN Parsed(JNum(TextNum(Head(t))), Tail(t))
    ELSE IF Head(t) = "null" THEN Parsed(JNull, Tail(t))
    ELSE IF Head(t) = "["
         THEN IF Len(t) >= 2 /\ t[2] = "]"
              THEN Parsed(JList(<<>>), Tail(Tail(t)))
              ELSE ParseItems(Tail(t), <<>>)
    ELSE ParseFailed

ParseItems(t, acc) ==
    LET v == ParseValue(t) IN
    IF ~v.ok \/ v.rest = <<>> THEN ParseFailed
    ELSE IF Head(v.rest) = ","
         THEN ParseItems(Tail(v.rest), Append(acc, v.val))
    ELSE IF Head(v.rest) = "]"
         THEN Parsed(JList(Append(acc, v.val)), Tail(v.rest))
    ELSE ParseFailed

\* The document of a whole text: the object save_zones wrote, with nothing
\* after it.
StartsWith(t, prefix) ==
    Len(t) >= Len(prefix) /\ SubSeq(t, 1, Len(prefix)) = prefix
Drop(t, n) == SubSeq(t, n + 1, Len(t))

ParseDoc(t) ==
    IF ~StartsWith(t, <<"{", "\"zones\"", ":">>) THEN ParseFailed
    ELSE LET z == ParseValue(Drop(t, 3)) IN
         IF ~z.ok \/ ~StartsWith(z.rest, <<",", "\"image\"", ":">>)
         THEN ParseFailed
         ELSE LET i == ParseValue(Drop(z.rest, 3)) IN
              IF i.ok /\ i.rest = <<"}">>
              THEN Parsed([zones |-> z.val, image |-> i.val], <<>>)
              ELSE ParseFailed

\* What a save request may carry as 'zones': no key at all, or a list of
\* polygons, each a list of [x, y] points.
Point(x, y) == JList(<<JNum(x), JNum(y)>>)
Triangle == JList(<<Point(0, 0), Point(1, 0), Point(1, 1)>>)
NoZonesKey == <<"absent">>
ZoneInputs ==
    {NoZonesKey, JList(<<>>), JList(<<Triangle, JList(<<Point(0, 0)>>)>>)}
        \cup {JList(<<JList(<<Point(x, y)>>)>>) :
                  x \in 0..MaxCoord, y \in 0..MaxCoord}
        \cup {JList(<<Triangle>>)}

\* data.get('zones', [])
ZonesOf(data) == IF data = NoZonesKey THEN JList(<<>>) ELSE data

NoFile == <<"no file">>
NoExpect == <<"no expectation">>

\* zone_config as the module defines it (lines 115-118).
InitialZoneConfig == [zones |-> JList(<<>>), image |-> JNull]

ZoneInit ==
    /\ zone_config = InitialZoneConfig
    /\ zfile = NoFile
    /\ zpc = [r \in Reqs |-> "idle"]
    /\ zres = [r \in Reqs |-> NoResult]
    /\ nSaves = 0
    /\ zOverlap = [r \in Reqs |-> FALSE]
    /\ zLast = NoExpect
    /\ zExpect = [r \in Reqs |-> NoExpect]

SavePcs == {"Z_open", "Z_dump"}
InSave(r) == zpc[r] \in SavePcs

ZGoto(r, where) ==
    /\ zpc' = [zpc EXCEPT ![r] = where]
    /\ UNCHANGED zres

ZReturn(r, result) ==
    /\ zpc' = [zpc EXCEPT ![r] = "respond"]
    /\ zres' = [zres EXCEPT ![r] = result]

\* save_zones: zone_config['zones'] = data.get('zones', [])
SaveZonesSet(r, data) ==
    /\ zpc[r] = "idle"
    /\ nSaves < MaxSaves
    /\ nSaves' = nSaves + 1
    /\ zone_config' = [zone_config EXCEPT !.zones = ZonesOf(data)]
    /\ ZGoto(r, "Z_open")
    /\ zOverlap' = [q \in Reqs |->
                       IF q = r THEN \E o \in Reqs : InSave(o)
                       ELSE IF InSave(q) THEN TRUE ELSE zOverlap[q]]
    /\ zLast' = NoExpect
    /\ zExpect' = [q \in Reqs |-> NoExpect]
    /\ UNCHANGED zfile
    /\ UNCHANGED notZoneVars

\* save_zones opening the file without cutting it ('r+' for 'w'): what was
\* in it stays until it is written over.
SaveZonesOpen_NoTruncate(r) ==
    /\ zpc[r] = "Z_open"
    /\ zfile' = IF zfile = NoFile THEN <<>> ELSE zfile
    /\ ZGoto(r, "Z_dump")
    /\ UNCHANGED <<zone_config, nSaves, zOverlap, zLast, zExpect>>
    /\ UNCHANGED notZoneVars

\* with open('zones_config.json', 'w') as f: the file is created or cut to
\* nothing.
SaveZonesOpen(r) ==
    /\ zpc[r] = "Z_open"
    /\ zfile' = <<>>
    /\ ZGoto(r, "Z_dump")
    /\ UNCHANGED <<zone_config, nSaves, zOverlap, zLast, zExpect>>
    /\ UNCHANGED notZoneVars

\* What a writer that opened the file at offset 0 leaves in it when its
\* buffer is written: its text over the start of what is there.
Overwrite(old, text) == text \o Drop(old, Len(text))

\* json.dump(zone_config, f); leaving the with block writes the buffered
\* text and closes the file; return jsonify({'success': True, ...})
SaveZonesDump(r) ==
    /\ zpc[r] = "Z_dump"
    /\ zfile' = Overwrite(IF zfile = NoFile THEN <<>> ELSE zfile,
                          DumpDoc(zone_config))
    /\ ZReturn(r, Ret(TRUE, "Zones saved"))
    /\ zLast' = IF zOverlap[r] THEN zLast ELSE zone_config.zones
    /\ UNCHANGED <<zone_config, nSaves, zOverlap, zExpect>>
    /\ UNCHANGED notZoneVars

\* load_zones: if os.path.exists('zones_config.json'):
LoadZonesExists(r) ==
    /\ zpc[r] = "idle"
    /\ ZGoto(r, IF zfile # NoFile THEN "Z_read" ELSE "Z_return")
    /\ zExpect' = [zExpect EXCEPT ![r] = zLast]
    /\ UNCHANGED <<zone_config, zfile, nSaves, zOverlap, zLast>>
    /\ UNCHANGED notZoneVars

\* with open(..., 'r') as f: zone_config = json.load(f); except: pass
LoadZonesRead(r) ==
    /\ zpc[r] = "Z_read"
    /\ LET doc == ParseDoc(zfile) IN
          zone_config' = IF doc.ok THEN doc.val ELSE zone_config
    /\ ZGoto(r, "Z_return")
    /\ UNCHANGED <<zfile, nSaves, zOverlap, zLast, zExpect>>
    /\ UNCHANGED notZoneVars

\* return jsonify(zone_config)
LoadZonesReturn(r) ==
    /\ zpc[r] = "Z_return"
    /\ ZReturn(r, Value(zone_config))
    /\ UNCHANGED <<zone_config, zfile, nSaves, zOverlap, zLast, zExpect>>
    /\ UNCHANGED notZoneVars

\* The request is answered and the thread is free again.
ZoneRespond(r) ==
    /\ zpc[r] = "respond"
    /\ zpc' = [zpc EXCEPT ![r] = "idle"]
    /\ zres' = [zres EXCEPT ![r] = NoResult]
    /\ zExpect' = [zExpect EXCEPT ![r] = NoExpect]
    /\ zOverlap' = [zOverlap EXCEPT ![r] = FALSE]
    /\ UNCHANGED <<zone_config, zfile, nSaves, zLast>>
    /\ UNCHANGED notZoneVars

\* The process is stopped and started again while no request is served:
\* zone_config is the module's initial dict again, the file stays.
Restart ==
    /\ \A r \in Reqs : zpc[r] = "idle"
    /\ zone_config # InitialZoneConfig
    /\ zone_config' = InitialZoneConfig
    /\ UNCHANGED <<zfile, zpc, zres, nSaves, zOverlap, zLast, zExpect>>
    /\ UNCHANGED notZoneVars

\* The zones: request handlers and restarts of the process.
NextZones ==
    \/ \E r \in Reqs, data \in ZoneInputs : SaveZonesSet(r, data)
    \/ \E r \in Reqs : SaveZonesOpen(r)
    \/ \E r \in Reqs : SaveZonesDump(r)
    \/ \E r \in Reqs : LoadZonesExists(r)
    \/ \E r \in Reqs : LoadZonesRead(r)
    \/ \E r \in Reqs : LoadZonesReturn(r)
    \/ \E r \in Reqs : ZoneRespond(r)
    \/ Restart

\* ============================================================== sessions
\* session.get('user') when the key is absent.
NoUser == "no user"
ADMIN_USER == "Tug"
ADMIN_PASS == "Tugdual07"

EmptySession == [user |-> NoUser, is_admin |-> FALSE]

SessionInit == session = EmptySession

\* login (POST): the session is filled when the credentials are the admin's.
Login(username, password) ==
    /\ session' = IF username = ADMIN_USER /\ password = ADMIN_PASS
                  THEN [user |-> username, is_admin |-> TRUE]
                  ELSE session
    /\ UNCHANGED <<camVars, trainVars, zoneVars>>

\* logout: session.pop('user', None); session.pop('is_admin', None)
Logout ==
    /\ session' = EmptySession
    /\ UNCHANGED <<camVars, trainVars, zoneVars>>

\* login_required without its test of the session.
LoginRequired_Always(sess) == TRUE

\* login_required: 'user' in session, else redirect(url_for('login'))
LoginRequired(sess) == sess.user # NoUser

\* admin_required: 'user' in session and session.get('user') == ADMIN_USER,
\* else redirect(url_for('dashboard'))
AdminRequired(sess) == sess.user # NoUser /\ sess.user = ADMIN_USER

Redirect(where) == <<"redirect", where>>

\* The /api routes and the decorators each is defined under, outermost
\* first.
CameraRoutes == {"camera_connect", "camera_disconnect", "camera_frame",
                 "camera_status"}
ZoneRoutes == {"save_zones", "load_zones"}
TrainingRoutes == {"start_training", "get_training_status", "stop_training"}
ApiRoutes == CameraRoutes \cup ZoneRoutes \cup TrainingRoutes

Decorators(route) ==
    IF route \in TrainingRoutes THEN <<"login_required", "admin_required">>
    ELSE <<"login_required">>

Passes(decorator, sess) ==
    IF decorator = "login_required" THEN LoginRequired(sess)
    ELSE AdminRequired(sess)

\* What the decorators of a route do with a request: the handler is called,
\* or the first decorator that refuses answers a redirect.
RECURSIVE Dispatch(_, _)
Dispatch(decorators, sess) ==
    IF decorators = <<>> THEN "handler"
    ELSE IF Passes(Head(decorators), sess)
         THEN Dispatch(Tail(decorators), sess)
    ELSE IF Head(decorators) = "login_required" THEN Redirect("login")
    ELSE Redirect("dashboard")

\* get_training_status: return jsonify(training_status)
GetTrainingStatus(r) ==
    /\ tpc[r] = "idle"
    /\ TReturn(r, Value(training_status))
    /\ UNCHANGED <<training_status, targ, workerVars, nStarts, nStops,
                   advances, tRunning, stopSnap>>
    /\ UNCHANGED notTrainVars

\* The first step of the handler of each route.
Handler(route, r) ==
    \/ route = "camera_connect" /\ (Connect(r) \/ ConnectIp(r))
    \/ route = "camera_disconnect" /\ DisconnectBegin(r)
    \/ route = "camera_frame" /\ GetFrameCall(r)
    \/ route = "camera_status" /\ CameraStatusConnected(r)
    \/ route = "save_zones" /\ \E data \in ZoneInputs : SaveZonesSet(r, data)
    \/ route = "load_zones" /\ LoadZonesExists(r)
    \/ route = "start_training"
           /\ \E epochs \in EpochInputs : StartCheck(r, epochs)
    \/ route = "get_training_status" /\ GetTrainingStatus(r)
    \/ route = "stop_training" /\ StopFlag(r)

\* The thread serves no request.
ThreadIdle(r) == pc[r] = "idle" /\ tpc[r] = "idle" /\ zpc[r] = "idle"

\* The camera, the zones and the training job share no state; a behaviour
\* of the whole API sends its requests to one of the three.
CameraUntouched ==
    /\ nConnects = 0
    /\ ~discDone
    /\ \A r \in Reqs : pc[r] = "idle"
ZonesUntouched == nSaves = 0 /\ \A r \in Reqs : zpc[r] = "idle"
TrainingUntouched ==
    /\ nStarts = 0
    /\ nStops = 0
    /\ \A r \in Reqs : tpc[r] = "idle"

OthersUntouched(route) ==
    /\ route \in CameraRoutes => ZonesUntouched /\ TrainingUntouched
    /\ route \in ZoneRoutes => CameraUntouched /\ TrainingUntouched
    /\ route \in TrainingRoutes => CameraUntouched /\ ZonesUntouched

\* A request to an /api route whose decorators let it through.
ApiRequest(r, route) ==
    /\ ThreadIdle(r)
    /\ OthersUntouched(route)
    /\ Dispatch(Decorators(route), session) = "handler"
    /\ Handler(route, r)

\* A request to an /api route that a decorator answers with a redirect.
ApiRejected(r, route) ==
    /\ ThreadIdle(r)
    /\ OthersUntouched(route)
    /\ Dispatch(Decorators(route), session) # "handler"
    /\ IF route \in CameraRoutes
       THEN /\ Return(r, Dispatch(Decorators(route), session))
            /\ UNCHANGED <<camera, camera_id, is_streaming, frame, lock,
                           handleVars, arg, loopVars, nConnects, histVars>>
            /\ UNCHANGED notCamVars
       ELSE IF route \in ZoneRoutes
       THEN /\ ZReturn(r, Dispatch(Decorators(route), session))
            /\ UNCHANGED <<zone_config, zfile, nSaves, zOverlap, zLast,
                           zExpect>>
            /\ UNCHANGED notZoneVars
       ELSE /\ TReturn(r, Dispatch(Decorators(route), session))
            /\ UNCHANGED <<training_status, targ, workerVars, nStarts, nStops,
                           advances, tRunning, stopSnap>>
            /\ UNCHANGED notTrainVars

\* The steps of the handlers after their first.
CameraBody(r) ==
    \/ ConnectCheck(r)
    \/ ConnectRelease(r)
    \/ ConnectOpen(r)
    \/ ConnectIsOpened(r)
    \/ ConnectTestRead(r)
    \/ ConnectSetId(r)
    \/ ConnectSetStreaming(r)
    \/ ConnectSpawn(r)
    \/ DisconnectCheck(r)
    \/ DisconnectRelease(r)
    \/ DisconnectClear(r)
    \/ DisconnectId(r)
    \/ DisconnectFrame(r)
    \/ GetFrameAcquire(r)
    \/ GetFrameCheck(r)
    \/ GetFrameEncode(r)
    \/ CameraStatusId(r)
    \/ Respond(r)

ZoneBody(r) ==
    \/ SaveZonesOpen(r)
    \/ SaveZonesDump(r)
    \/ LoadZonesRead(r)
    \/ LoadZonesReturn(r)
    \/ ZoneRespond(r)

TrainingBody(r) ==
    \/ StartReset(r)
    \/ StartSpawn(r)
    \/ StopMessage(r)
    \/ TrainRespond(r)

\* ======================================================== specifications
vars == <<camVars, trainVars, zoneVars, session>>

Init == CamInit /\ TrainInit /\ ZoneInit /\ SessionInit

Spec == Init /\ [][Next]_vars

SpecTrain == Init /\ [][NextTrain]_vars

SpecZones == Init /\ [][NextZones]_vars

\* The same with one request served at a time (a single request thread),
\* beside the threads the handlers have started.
FirstReq == "r1"

NextSeq ==
    \/ RequestStep(FirstReq)
    \/ CameraStatusConnected(FirstReq)
    \/ CameraStatusId(FirstReq)
    \/ \E l \in Loops : LoopStep(l)

SpecSeq == Init /\ [][NextSeq]_vars

NextTrainSeq ==
    \/ TrainRequestStep(FirstReq)
    \/ GetTrainingStatus(FirstReq)
    \/ \E w \in Workers : WorkerStep(w)

SpecTrainSeq == Init /\ [][NextTrainSeq]_vars

\* The whole API behind its decorators: a browser that logs in and out and
\* makes one request at a time, beside the threads the handlers have
\* started.
NextApi ==
    \/ \E username \in {ADMIN_USER, "guest"},
          password \in {ADMIN_PASS, "wrong"} :
          Login(username, password)
    \/ Logout
    \/ \E route \in ApiRoutes : ApiRequest(FirstReq, route)
    \/ \E route \in ApiRoutes : ApiRejected(FirstReq, route)
    \/ CameraBody(FirstReq)
    \/ ZoneBody(FirstReq)
    \/ TrainingBody(FirstReq)
    \/ \E l \in Loops : LoopStep(l)
    \/ \E w \in Workers : WorkerStep(w)

SpecApi == Init /\ [][NextApi]_vars

\* The camera under fair scheduling: one thread makes any camera request,
\* a second one polls /api/camera/frame. A thread that holds the lock, or
\* that can take it again and again, is eventually run: the holder of
\* self.lock goes on (weak fairness), and a thread waiting at 'with
\* self.lock' gets the lock if it is free again and again (strong fairness:
\* the capture threads sleep 33 ms between two acquisitions).
SecondReq == "r2"

NextLive ==
    \/ RequestStep(FirstReq)
    \/ GetFrameCall(SecondReq)
    \/ GetFrameAcquire(SecondReq)
    \/ GetFrameCheck(SecondReq)
    \/ GetFrameEncode(SecondReq)
    \/ Respond(SecondReq)
    \/ \E l \in Loops : LoopStep(l)

FairScheduling ==
    /\ \A r \in Reqs : SF_vars(GetFrameAcquire(r))
    /\ \A r \in Reqs : WF_vars(GetFrameCheck(r))
    /\ \A r \in Reqs : WF_vars(GetFrameEncode(r))
    /\ \A l \in Loops : WF_vars(LoopStore(l))

SpecLive == Init /\ [][NextLive]_vars /\ FairScheduling

\* ================================================================ claims
\* C1: at most one _capture_loop thread is alive at any time, whatever
\* connect, connect_ip and disconnect calls are made.
C1_AtMostOneCaptureLoop == Cardinality(AliveLoops) <= 1

\* C2: a get_frame_base64 call that begins after disconnect has returned,
\* with no connect begun since, returns None.
C2_NoFrameAfterDisconnect ==
    \A r \in Reqs :
        (pc[r] = "respond" /\ gAfter[r] /\ discDone) => rres[r] = Value(None)

\* C3: a connect has released the prior handle before it opens the new one
\* (no handle is open at the moment VideoCapture is constructed), and no
\* handle is leaked: every handle that has been opened and not released is
\* the session's current handle.
C3_NoLeakedHandle ==
    [][/\ opened' \subseteq {camera'}
       /\ \A r \in Reqs :
             (pc[r] = "C_open" /\ pc'[r] = "C_isOpened") => opened = {}]_vars

\* C4: is_streaming implies that a capture thread is alive and that a source
\* is recorded (camera and camera_id are not None). Stated for the states in
\* which no request is in progress, so that the lines of connect between
\* setting the flag and starting the thread do not count against it.
C4_StreamingImpliesLoopAndSource ==
    ((\A r \in Reqs : pc[r] = "idle") /\ is_streaming) =>
        /\ AliveLoops # {}
        /\ camera # NoHandle
        /\ camera_id # None

\* C5: once stop has returned for a running job, that job advances no more:
\* epoch and progress stay as they were when stop returned (until a start
\* resets the status).
C5_NoAdvanceAfterStop ==
    stopSnap # NoSnap =>
        <<training_status.epoch, training_status.progress>> = stopSnap

\* C6: at most one training_worker thread is alive at any time.
C6_AtMostOneWorker == Cardinality(AliveWorkers) <= 1

\* C7: a start request does not go ahead while is_training is true: none
\* replaces training_status (and then spawns a worker) in a state where a
\* job is in progress, so of two concurrent start requests one is refused.
C7_NoResetWhileTraining ==
    [][\A r \in Reqs :
          (tpc[r] = "S_reset" /\ tpc'[r] = "S_spawn") =>
              ~training_status.is_training]_vars

\* C8: a job started with epochs = N >= 1 and never stopped ends with
\* progress = 100, is_training false and the message 'Training completed!',
\* after exactly N epoch advances, the last of which set epoch to N.
C8_CompletesAfterNEpochs ==
    (/\ nWorkers >= 1
     /\ AliveWorkers = {}
     /\ \A r \in Reqs : tpc[r] \notin {"S_reset", "S_spawn"}
     /\ nStops = 0
     /\ training_status.total_epochs >= 1) =>
        /\ training_status.progress = 100
        /\ ~training_status.is_training
        /\ training_status.message = MsgCompleted
        /\ training_status.epoch = training_status.total_epochs
        /\ advances = training_status.total_epochs

\* C9: the frame slot is read and written only under the lock, so that no
\* write to it occurs while get_frame_base64 is between its None check and
\* its encode: no step changes self.frame while a reader is at the encode.
C9_NoWriteWhileEncoding ==
    [][(\E r \in Reqs : pc[r] = "G_encode") => frame' = frame]_vars

\* C10: disconnect is idempotent. When it returns, no connect having run
\* beside it (or beside a disconnect still running beside it),
\* is_streaming is false, camera, camera_id and frame are None and
\* the handle the call found in self.camera is released. A call that finds
\* the session already disconnected releases nothing, raises nothing and
\* leaves it disconnected.
C10_DisconnectIdempotent ==
    [][\A r \in Reqs :
          /\ (pc[r] = "D_frame" /\ pc'[r] = "respond" /\ ~dOverlap[r]) =>
                /\ Disconnected'
                /\ rres'[r] = Ret(TRUE, "Camera disconnected")
                /\ dCam[r] # NoHandle => dCam[r] \notin opened'
                /\ dCam[r] = NoHandle => ~dRel[r]
          /\ (InDisconnect(r) /\ pc'[r] = "respond" /\ ~dOverlap[r]
                /\ dCam[r] = NoHandle) =>
                rres'[r] # Raised("AttributeError")]_vars

\* C10's case: a disconnect call that found the session disconnected after an
\* earlier connect had streamed, and has returned.
C10_Witness ==
    \E r \in Reqs :
        /\ pc[r] = "respond"
        /\ rres[r] = Ret(TRUE, "Camera disconnected")
        /\ dCam[r] = NoHandle
        /\ ~dOverlap[r]
        /\ nLoops >= 1
        /\ Disconnected

\* C15: when a job has ended after a stop request that found it running
\* (and no start has reset the status since), is_training is false and the
\* message is 'Training stopped by user': the worker does not overwrite the
\* stop message after the stop.
C15_StopMessageKept ==
    (/\ stopSnap # NoSnap
     /\ AliveWorkers = {}
     /\ \A r \in Reqs : tpc[r] \notin {"S_reset", "S_spawn"}) =>
        /\ ~training_status.is_training
        /\ training_status.message = MsgStopped

\* C16: Stopped is entered only from Running: a stop request that finds no
\* job running (is_training false when it begins) leaves training_status,
\* its message included, as it was.
C16_StopOnlyFromRunning ==
    [][\A r \in Reqs :
          (tpc[r] = "T_message" /\ tpc'[r] = "respond" /\ ~tRunning[r]) =>
              training_status' = training_status]_vars

\* C19: 0 <= epoch <= total_epochs and 0 <= progress <= 100 in every state,
\* and epoch and progress never decrease except when a start resets them.
C19_EpochAndProgressInRange ==
    [][/\ training_status'.epoch \in 0..training_status'.total_epochs
       /\ training_status'.progress \in 0..100
       /\ (\A r \in Reqs : ~(tpc[r] = "S_reset" /\ tpc'[r] = "S_spawn")) =>
             /\ training_status'.epoch >= training_status.epoch
             /\ training_status'.progress >= training_status.progress]_vars

\* C17: the capture loop never calls read() on an absent or released
\* handle: whenever a capture thread executes its read, self.camera is a
\* handle and it is open, and no capture thread dies from the exception of
\* reading None.
C17_LoopReadsCurrentHandle ==
    [][\A l \in Loops :
          (lpc[l] = "L_read" /\ lpc'[l] # "L_read") =>
              /\ camera # NoHandle
              /\ camera \in opened
              /\ lpc'[l] # "crashed"]_vars

\* C20: once a successful connect to source S has returned (the session
\* streams, S is the recorded source and the current handle is the one
\* constructed on S), every frame get_frame_base64 returns was read from S.
C20_FrameFromCurrentSource ==
    \A r \in Reqs :
        (/\ pc[r] = "respond"
         /\ is_streaming
         /\ camera # NoHandle
         /\ camera_id # None
         /\ hsrc[camera] = camera_id
         /\ rres[r] \in {Value(Encode(src)) : src \in {UsbSource, IpSource}}) =>
            rres[r] = Value(Encode(camera_id))

\* C18: the status agrees with the session state: a status document given
\* when no other request is in progress reports connected = true exactly
\* when is_streaming is true and camera_id is not None (so connected = false
\* after a connect that failed from a disconnected session).
C18_StatusAgreesWithSession ==
    \A r \in Reqs :
        (/\ pc[r] = "respond"
         /\ \A q \in Reqs \ {r} : pc[q] = "idle"
         /\ rres[r] # NoResult
         /\ rres[r][1] = "status") =>
            (rres[r][2] <=> (is_streaming /\ camera_id # None))

\* C14: a capture loop that was alive when disconnect was called terminates:
\* at its next test of the while condition it leaves the loop, whatever
\* connect calls have followed (it does not go on to another read because it
\* finds is_streaming true again).
C14_SignalledLoopExits ==
    [][\A l \in Loops :
          (l \in signalled /\ lpc[l] = "L_while") => lpc'[l] # "L_read"]_vars

\* C12: get_frame_base64 waits for nothing but self.lock, which a capture
\* thread holds only for the slot assignment (never across a read or the
\* sleep), so under fair scheduling every call returns.
C12_GetFrameReturns ==
    /\ [](\A l \in Loops : lock = LoopHolder(l) => lpc[l] = "L_store")
    /\ \A r \in Reqs : (pc[r] = "G_lock") ~> (pc[r] = "respond")

\* C12's case: a get_frame_base64 call waits at its with statement while a
\* capture thread holds the lock, beside a disconnect in progress.
C12_Witness ==
    /\ pc[SecondReq] = "G_lock"
    /\ \E l \in Loops : lock = LoopHolder(l)
    /\ InDisconnect(FirstReq)

BusinessState ==
    <<camera, camera_id, is_streaming, frame, lock, opened, lpc, nLoops,
      zone_config, zfile, training_status, wpc, nWorkers>>

\* C11: a request to an /api route made without an authenticated session,
\* or to a training route by a session whose user is not the admin, does not
\* reach its handler: it is answered with a redirect, changes no camera,
\* zone or training state and starts no thread.
C11_NoHandlerWithoutSession ==
    [][\A r \in Reqs :
          (/\ ThreadIdle(r)
           /\ ~ThreadIdle(r)'
           /\ \/ session.user = NoUser
              \/ tpc'[r] # "idle" /\ session.user # ADMIN_USER) =>
              /\ BusinessState' = BusinessState
              /\ pc'[r] # "idle" => pc'[r] = "respond"
                                      /\ rres'[r] = Redirect("login")
              /\ zpc'[r] # "idle" => zpc'[r] = "respond"
                                       /\ zres'[r] = Redirect("login")
              /\ tpc'[r] # "idle" =>
                    /\ tpc'[r] = "respond"
                    /\ tres'[r] \in {Redirect("login"),
                                     Redirect("dashboard")}]_vars

\* C11's case: after the admin has connected the camera and logged out, a
\* request to a camera route has been answered with the redirect to login.
C11_Witness ==
    /\ session.user = NoUser
    /\ is_streaming
    /\ AliveLoops # {}
    /\ pc[FirstReq] = "respond"
    /\ rres[FirstReq] = Redirect("login")
====
